---------------------------- MODULE Spec2Model ----------------------------
(* A model of cpanel_exporter.py: the /metrics scrape of a cPanel server.    *)
(* One scrape lists the accounts (whmapi1 listaccts) and then, account by    *)
(* account, queries the per-user UAPI modules and formats their answers as   *)
(* Prometheus text lines.                                                    *)
(*                                                                           *)
(* Python strings are sequences of one-character strings, so that escaping,  *)
(* stripping, digit tests and substring tests are computed and not assumed.  *)
(* JSON values are tagged records.  A Python float is an exact rational      *)
(* n/d * 2^p in canonical form (n and d odd and coprime, or n = 0); the      *)
(* rounding error of IEEE doubles is not modelled.                           *)
EXTENDS Integers, Sequences, FiniteSets, TLC

\* The longest account listing the model draws.
MaxUsers == 2

-----------------------------------------------------------------------------
\* String literals of the source.

\* 'cpanel_' (line 419)
S_cpanel_ == <<"c", "p", "a", "n", "e", "l", "_">>
\* 'cpanel_info' (line 480)
S_cpanel_info == <<"c", "p", "a", "n", "e", "l", "_", "i", "n", "f", "o">>
\* 'cpanel_free_' (lines 465, 468)
S_cpanel_free_ == <<"c", "p", "a", "n", "e", "l", "_", "f", "r", "e", "e", "_">>
\* '_percent' (lines 468, 471, 190)
S__percent == <<"_", "p", "e", "r", "c", "e", "n", "t">>
\* 'diskusage'
S_diskusage == <<"d", "i", "s", "k", "u", "s", "a", "g", "e">>
\* 'filesusage'
S_filesusage == <<"f", "i", "l", "e", "s", "u", "s", "a", "g", "e">>
\* 'bandwidthusage'
S_bandwidthusage == <<"b", "a", "n", "d", "w", "i", "d", "t", "h", "u", "s", "a", "g", "e">>
\* 'mysqldiskusage'
S_mysqldiskusage == <<"m", "y", "s", "q", "l", "d", "i", "s", "k", "u", "s", "a", "g", "e">>
\* 'cachedmysqldiskusage'
S_cachedmysqldiskusage ==
    <<"c", "a", "c", "h", "e", "d", "m", "y", "s", "q", "l", "d", "i", "s", "k", "u", "s", "a",
      "g", "e">>
\* 'postgresdiskusage'
S_postgresdiskusage ==
    <<"p", "o", "s", "t", "g", "r", "e", "s", "d", "i", "s", "k", "u", "s", "a", "g", "e">>
\* 'cachedpostgresdiskusage'
S_cachedpostgresdiskusage ==
    <<"c", "a", "c", "h", "e", "d", "p", "o", "s", "t", "g", "r", "e", "s", "d", "i", "s", "k",
      "u", "s", "a", "g", "e">>
\* "GB" (line 442)
S_GB == <<"G", "B">>
\* "MB" (line 444)
S_MB == <<"M", "B">>
\* "unlimited" (line 453)
S_unlimited == <<"u", "n", "l", "i", "m", "i", "t", "e", "d">>
\* 'unknown' (line 122)
S_unknown == <<"u", "n", "k", "n", "o", "w", "n">>
\* 'user' (line 136)
S_user == <<"u", "s", "e", "r">>
\* 'ip' (line 137)
S_ip == <<"i", "p">>
\* "You do not have the feature" (lines 213, 260, 307, 354)
S_feature ==
    <<"Y", "o", "u", " ", "d", "o", " ", "n", "o", "t", " ", "h", "a", "v", "e", " ", "t", "h",
      "e", " ", "f", "e", "a", "t", "u", "r", "e">>
\* 'lvecpu'
S_lvecpu == <<"l", "v", "e", "c", "p", "u">>
\* 'lveep'
S_lveep == <<"l", "v", "e", "e", "p">>
\* 'lvememphy'
S_lvememphy == <<"l", "v", "e", "m", "e", "m", "p", "h", "y">>
\* 'lveiops'
S_lveiops == <<"l", "v", "e", "i", "o", "p", "s">>
\* 'lveio'
S_lveio == <<"l", "v", "e", "i", "o">>
\* 'lvenproc'
S_lvenproc == <<"l", "v", "e", "n", "p", "r", "o", "c">>
\* metric name of line 241
S_mysql_metric ==
    <<"c", "p", "a", "n", "e", "l", "_", "m", "y", "s", "q", "l", "_", "d", "b", "_", "d", "i",
      "s", "k", "_", "u", "s", "a", "g", "e">>
\* metric name of line 288
S_postgres_metric ==
    <<"c", "p", "a", "n", "e", "l", "_", "p", "o", "s", "t", "g", "r", "e", "s", "_", "d", "b",
      "_", "d", "i", "s", "k", "_", "u", "s", "a", "g", "e">>
\* metric name of line 335
S_email_metric ==
    <<"c", "p", "a", "n", "e", "l", "_", "e", "m", "a", "i", "l", "_", "d", "i", "s", "k", "_",
      "u", "s", "a", "g", "e">>
\* metric name of line 383
S_ftp_metric ==
    <<"c", "p", "a", "n", "e", "l", "_", "f", "t", "p", "_", "a", "c", "c", "o", "u", "n", "t",
      "_", "d", "i", "s", "k", "_", "u", "s", "a", "g", "e">>
\* structural label key of lines 241 and 288
S_db == <<"d", "b">>
\* structural label key of line 335
S_email == <<"e", "m", "a", "i", "l">>
\* structural label key of line 383
S_ftp_account == <<"f", "t", "p", "_", "a", "c", "c", "o", "u", "n", "t">>
\* str(None), what an f-string renders for a null value
S_None == <<"N", "o", "n", "e">>
\* float() accepts the literal inf
S_inf == <<"i", "n", "f">>
\* float() accepts the literal nan
S_nan == <<"n", "a", "n">>
\* body of the 500 response (line 517)
S_error_body ==
    <<"I", "n", "t", "e", "r", "n", "a", "l", " ", "s", "e", "r", "v", "e", "r", " ", "e", "r",
      "r", "o", "r">>

-----------------------------------------------------------------------------
\* Values of the JSON documents the collaborators print.

None == [t |-> "null"]
Str(s) == [t |-> "str", s |-> s]
\* The JSON number n/d (an int when d = 1).
Num(n, d) == [t |-> "num", n |-> n, d |-> d]
List(items) == [t |-> "list", items |-> items]
Obj(f) == [t |-> "obj", f |-> f]
EmptyObj == Obj(<<>>)

\* dict.get(k) and dict.get(k, default).
get(o, k) == IF k \in DOMAIN o.f THEN o.f[k] ELSE None
get_default(o, k, default) == IF k \in DOMAIN o.f THEN o.f[k] ELSE default

\* Python's truth value of a JSON value.
Truthy(v) ==
    CASE v.t = "null" -> FALSE
      [] v.t = "str" -> v.s /= <<>>
      [] v.t = "num" -> v.n /= 0
      [] v.t = "list" -> v.items /= <<>>
      [] v.t = "obj" -> DOMAIN v.f /= {}

isinstance_str(v) == v.t = "str"
isinstance_number(v) == v.t = "num"
isinstance_dict(v) == v.t = "obj"

\* The outcome of a call: a value, or an exception on its way up.
Ok(v) == [ok |-> TRUE, val |-> v]
Raise(e) == [ok |-> FALSE, exc |-> e]
\* The rest of a block after a call: K of the value, or the exception passed on.
Bind(r, K(_)) == IF r.ok THEN K(r.val) ELSE r

-----------------------------------------------------------------------------
\* Python str methods.

Whitespace == {" ", "\t", "\n"}
DigitChars == <<"0", "1", "2", "3", "4", "5", "6", "7", "8", "9">>
UpperChars ==
    <<"A", "B", "C", "D", "E", "F", "G", "H", "I", "J", "K", "L", "M",
      "N", "O", "P", "Q", "R", "S", "T", "U", "V", "W", "X", "Y", "Z">>
LowerChars ==
    <<"a", "b", "c", "d", "e", "f", "g", "h", "i", "j", "k", "l", "m",
      "n", "o", "p", "q", "r", "s", "t", "u", "v", "w", "x", "y", "z">>

IsDigitChar(c) == \E i \in DOMAIN DigitChars : DigitChars[i] = c
DigitValue(c) == (CHOOSE i \in DOMAIN DigitChars : DigitChars[i] = c) - 1

\* str.isdigit(): non-empty and digits only.
isdigit(s) == s /= <<>> /\ \A i \in DOMAIN s : IsDigitChar(s[i])

LowerChar(c) ==
    IF \E i \in DOMAIN UpperChars : UpperChars[i] = c
    THEN LowerChars[CHOOSE i \in DOMAIN UpperChars : UpperChars[i] = c]
    ELSE c
\* str.lower()
lower(s) == [i \in DOMAIN s |-> LowerChar(s[i])]

RECURSIVE lstrip(_)
lstrip(s) == IF s /= <<>> /\ Head(s) \in Whitespace THEN lstrip(Tail(s)) ELSE s
RECURSIVE rstrip(_)
rstrip(s) ==
    IF s /= <<>> /\ s[Len(s)] \in Whitespace THEN rstrip(SubSeq(s, 1, Len(s) - 1)) ELSE s
\* str.strip()
strip(s) == rstrip(lstrip(s))

\* str.replace(old, new) for a one-character old.
RECURSIVE replace(_, _, _)
replace(s, old, new) ==
    IF s = <<>> THEN <<>>
    ELSE (IF Head(s) = old THEN new ELSE <<Head(s)>>) \o replace(Tail(s), old, new)

\* str.replace(old, '', 1): the first occurrence of the character removed.
RECURSIVE remove_first(_, _)
remove_first(s, old) ==
    IF s = <<>> THEN <<>>
    ELSE IF Head(s) = old THEN Tail(s)
    ELSE <<Head(s)>> \o remove_first(Tail(s), old)

\* needle in haystack, for strings.
contains(haystack, needle) ==
    \E i \in 1..(Len(haystack) - Len(needle) + 1) :
        SubSeq(haystack, i, i + Len(needle) - 1) = needle

\* sep.join(parts)
RECURSIVE join(_, _)
join(sep, parts) ==
    IF parts = <<>> THEN <<>>
    ELSE IF Len(parts) = 1 THEN parts[1]
    ELSE parts[1] \o sep \o join(sep, Tail(parts))

-----------------------------------------------------------------------------
\* Python floats, as exact rationals n/d * 2^p.

RECURSIVE GCD(_, _)
GCD(a, b) == IF b = 0 THEN a ELSE GCD(b, a % b)
Abs(x) == IF x < 0 THEN -x ELSE x

\* n/d * 2^p brought to canonical form: n and d odd and coprime, or n = 0.
RECURSIVE Fin(_, _, _)
Fin(n, d, p) ==
    IF n = 0 THEN [k |-> "fin", n |-> 0, d |-> 1, p |-> 0]
    ELSE IF n % 2 = 0 THEN Fin(n \div 2, d, p + 1)
    ELSE IF d % 2 = 0 THEN Fin(n, d \div 2, p - 1)
    ELSE LET g == GCD(Abs(n), d)
         IN [k |-> "fin", n |-> n \div g, d |-> d \div g, p |-> p]
Inf == [k |-> "inf"]
NaN == [k |-> "nan"]
IsFinite(x) == x.k = "fin"

\* a * b
FMul(a, b) ==
    IF a.k = "nan" \/ b.k = "nan" THEN NaN
    ELSE IF a.k = "inf" \/ b.k = "inf" THEN Inf
    ELSE Fin(a.n * b.n, a.d * b.d, a.p + b.p)

\* a - b.  An infinite operand gives an infinite result: the sign of an
\* infinity is not kept, and inf - inf is not told apart from it.
FSub(a, b) ==
    IF a.k = "nan" \/ b.k = "nan" THEN NaN
    ELSE IF a.k = "inf" \/ b.k = "inf" THEN Inf
    ELSE LET q == IF a.p < b.p THEN a.p ELSE b.p
             na == a.n * 2^(a.p - q)
             nb == b.n * 2^(b.p - q)
         IN Fin(na * b.d - nb * a.d, a.d * b.d, q)

\* a / b, raising ZeroDivisionError as Python does for a zero divisor.
FDiv(a, b) ==
    IF b.k = "fin" /\ b.n = 0 THEN Raise("ZeroDivisionError")
    ELSE IF a.k = "nan" \/ b.k = "nan" THEN Ok(NaN)
    ELSE IF a.k = "inf" THEN Ok(IF b.k = "inf" THEN NaN ELSE Inf)
    ELSE IF b.k = "inf" THEN Ok(Fin(0, 1, 0))
    ELSE Ok(Fin((IF b.n < 0 THEN -1 ELSE 1) * a.n * b.d, a.d * Abs(b.n), a.p - b.p))

\* The integer part and the rest of a finite float: x = Numer(x) / Denom(x).
Numer(x) == IF x.p >= 0 THEN x.n * 2^(x.p) ELSE x.n
Denom(x) == IF x.p >= 0 THEN x.d ELSE x.d * 2^(-x.p)

\* Truncation toward zero of a / b, b > 0.
TruncDiv(a, b) == IF a >= 0 THEN a \div b ELSE -((-a) \div b)
\* Rounding of a / b, b > 0, to the nearest integer, ties to even.
RoundDiv(a, b) ==
    LET f == a \div b
        r2 == 2 * (a - f * b)
    IN IF r2 < b THEN f
       ELSE IF r2 > b THEN f + 1
       ELSE IF f % 2 = 0 THEN f ELSE f + 1

\* int(x) of a float.
int_of_float(x) ==
    CASE x.k = "fin" -> Ok(TruncDiv(Numer(x), Denom(x)))
      [] x.k = "inf" -> Raise("OverflowError")
      [] x.k = "nan" -> Raise("ValueError")

\* round(x, 2) of a float.
round2(x) ==
    IF x.k /= "fin" THEN x
    ELSE Fin(RoundDiv(100 * Numer(x), Denom(x)), 100, 0)

RECURSIVE DecimalValue(_, _)
\* The integer the digits of s spell after acc, the point skipped.
DecimalValue(s, acc) ==
    IF s = <<>> THEN acc
    ELSE IF Head(s) = "." THEN DecimalValue(Tail(s), acc)
    ELSE DecimalValue(Tail(s), 10 * acc + DigitValue(Head(s)))
RECURSIVE FractionDigits(_)
\* The number of characters after the point of s.
FractionDigits(s) ==
    IF s = <<>> THEN 0
    ELSE IF Head(s) = "." THEN Len(s) - 1
    ELSE FractionDigits(Tail(s))

\* float(s) of a string without sign and surrounding whitespace: decimal
\* digits with at most one point, or inf / nan in any case.  Exponents and digit
\* separators are outside the strings the model draws.
float_of_digits(sign, body) ==
    IF lower(body) = S_inf THEN Ok(Inf)
    ELSE IF lower(body) = S_nan THEN Ok(NaN)
    ELSE IF isdigit(remove_first(body, "."))
    THEN Ok(Fin(sign * DecimalValue(body, 0), 10^FractionDigits(body), 0))
    ELSE Raise("ValueError")
\* float(s) of a stripped string: the sign taken off.
float_of_stripped(t) ==
    IF t /= <<>> /\ t[1] = "-" THEN float_of_digits(-1, Tail(t))
    ELSE IF t /= <<>> /\ t[1] = "+" THEN float_of_digits(1, Tail(t))
    ELSE float_of_digits(1, t)
\* float(s) of a string.
float_of_str(s) == float_of_stripped(strip(s))

\* float(v) of a JSON value.
float(v) ==
    CASE v.t = "str" -> float_of_str(v.s)
      [] v.t = "num" -> Ok(Fin(v.n, v.d, 0))
      [] OTHER -> Raise("TypeError")

\* What an f-string writes for a value that is a string or None.
format_value(v) == IF v.t = "str" THEN v.s ELSE S_None

-----------------------------------------------------------------------------
\* The command-line collaborators.  A finished process is a record
\* [returncode, stdout]; stdout is empty, text that is not JSON, or a JSON
\* document.

StdoutEmpty == [t |-> "empty"]
StdoutGarbage == [t |-> "text"]
StdoutJson(doc) == [t |-> "json", doc |-> doc]

\* json.loads(stdout)
json_loads(stdout) ==
    IF stdout.t = "json" THEN Ok(stdout.doc) ELSE Raise("JSONDecodeError")

\* run_whmapi: the parsed document, or the exception it raises.
run_whmapi(result) ==
    IF result.returncode /= 0 THEN Raise("RuntimeError")
    ELSE IF result.stdout.t = "empty" THEN Raise("RuntimeError")
    ELSE json_loads(result.stdout)

\* run_uapi_for_user: the parsed document, or the exception it raises.
run_uapi_for_user(result) ==
    IF result.returncode /= 0 THEN Raise("RuntimeError")
    ELSE IF result.stdout.t = "empty" THEN Raise("RuntimeError")
    ELSE json_loads(result.stdout)

\* d.get(k, {}) followed by a .get: the dict, or the AttributeError of the .get.
get_dict(o, k) ==
    IF isinstance_dict(get_default(o, k, EmptyObj))
    THEN Ok(get_default(o, k, EmptyObj))
    ELSE Raise("AttributeError")

\* [acct.get('user') for acct in accounts if acct.get('user')]
RECURSIVE users_of(_)
users_of(accounts) ==
    IF accounts = <<>> THEN <<>>
    ELSE (IF Truthy(get(Head(accounts), "user"))
          THEN <<get(Head(accounts), "user").s>> ELSE <<>>)
         \o users_of(Tail(accounts))

\* fetch_all_cpanel_users, were a failed call taken for an empty listing, as
\* the per-user fetchers take it.
fetch_all_cpanel_users_lenient(result) ==
    IF run_whmapi(result).ok
    THEN Bind(get_dict(run_whmapi(result).val, "data"), LAMBDA inner :
             Ok(users_of(get_default(inner, "acct", List(<<>>)).items)))
    ELSE Ok(<<>>)

\* fetch_all_cpanel_users: the user names of the listing, or the exception.
fetch_all_cpanel_users(result) ==
    Bind(run_whmapi(result), LAMBDA data :
        Bind(get_dict(data, "data"), LAMBDA inner :
            IF get_default(inner, "acct", List(<<>>)).t /= "list" THEN Raise("TypeError")
            ELSE Ok(users_of(get_default(inner, "acct", List(<<>>)).items))))

\* fetch_cpanel_metrics: result.data of StatsBar get_stats, or the exception.
fetch_cpanel_metrics(result) ==
    Bind(run_uapi_for_user(result), LAMBDA data :
        Bind(get_dict(data, "result"), LAMBDA res :
            Ok(get_default(res, "data", List(<<>>)))))

\* labels_dict[key] = value on an insertion-ordered dict of <<key, value>>.
dict_set(d, key, value) ==
    IF \E i \in DOMAIN d : d[i][1] = key
    THEN [i \in DOMAIN d |-> IF d[i][1] = key THEN <<key, value>> ELSE d[i]]
    ELSE Append(d, <<key, value>>)

\* The test of lines 128-133 on a statistic.
is_label(item) ==
    /\ Truthy(get(item, "name"))
    /\ get(item, "value") /= None
    /\ isinstance_str(get(item, "value"))
    /\ get(item, "name").s \notin {S_diskusage, S_bandwidthusage}

\* The loop of construct_labels over the statistics (lines 125-134).
RECURSIVE fold_labels(_, _)
fold_labels(items, labels_dict) ==
    IF items = <<>> THEN labels_dict
    ELSE IF is_label(Head(items))
    THEN fold_labels(Tail(items),
                     dict_set(labels_dict, get(Head(items), "name").s,
                              replace(get(Head(items), "value").s, "\"", <<"\\", "\"">>)))
    ELSE fold_labels(Tail(items), labels_dict)

\* f'{key}="{value}"'
label_pair(kv) == kv[1] \o <<"=", "\"">> \o kv[2] \o <<"\"">>
\* ",".join(f'{key}="{value}"' for key, value in labels_dict.items())
join_labels(labels_dict) ==
    join(<<",">>, [i \in DOMAIN labels_dict |-> label_pair(labels_dict[i])])

\* construct_labels: the labels string of a user, or the exception.
construct_labels(user_name, metrics, result) ==
    Bind(run_uapi_for_user(result), LAMBDA user_ip_data :
        Bind(get_dict(user_ip_data, "result"), LAMBDA res :
            Bind(get_dict(res, "data"), LAMBDA user_info :
                Ok(join_labels(
                    dict_set(dict_set(fold_labels(metrics.items, <<>>), S_user, user_name),
                             S_ip,
                             format_value(get_default(user_info, "ip", Str(S_unknown)))))))))

\* One exposition line: name{labels} value.
Line(name, labels, value) == [name |-> name, labels |-> labels, value |-> value]
\* An integer written as it is.
IntValue(n) == [k |-> "int", n |-> n]

-----------------------------------------------------------------------------
\* General statistics (the numeric stage of metrics, lines 412-481).

DbDiskUsageNames ==
    {S_mysqldiskusage, S_cachedmysqldiskusage, S_postgresdiskusage, S_cachedpostgresdiskusage}

\* Lines 424-436: a value as a float; "skip" stands for the continue of a
\* record that has no numeric value.
normalize(metric_value) ==
    IF isinstance_str(metric_value)
    THEN (IF isdigit(remove_first(strip(metric_value.s), "."))
          THEN float_of_str(strip(metric_value.s)) ELSE Raise("skip"))
    ELSE IF isinstance_number(metric_value) THEN float(metric_value)
    ELSE Raise("skip")

\* Lines 420-436: the value of a record, _count before value.
normalize_value(item) ==
    normalize(IF get(item, "_count") = None THEN get(item, "value") ELSE get(item, "_count"))

\* convert_units, were the database disk usages scaled like the other names.
convert_units_all(name, units, metric_value) ==
    IF units = Str(S_GB) THEN FMul(metric_value, Fin(1024^3, 1, 0))
    ELSE IF units = Str(S_MB) THEN FMul(metric_value, Fin(1024^2, 1, 0))
    ELSE metric_value

\* Lines 438-445: GB and MB to bytes, but for the database disk usages.
convert_units(name, units, metric_value) ==
    IF name \notin DbDiskUsageNames
    THEN (IF units = Str(S_GB) THEN FMul(metric_value, Fin(1024^3, 1, 0))
          ELSE IF units = Str(S_MB) THEN FMul(metric_value, Fin(1024^2, 1, 0))
          ELSE metric_value)
    ELSE metric_value

\* Lines 455-472: the three derived lines, max_value parsed.
free_lines(name, max_value_bytes, metric_value, percent, labels_string) ==
    << Line(S_cpanel_free_ \o name, labels_string, FSub(max_value_bytes, metric_value)),
       Line(S_cpanel_free_ \o name \o S__percent, labels_string,
            FSub(Fin(100, 1, 0), percent)),
       Line(S_cpanel_ \o name \o S__percent, labels_string, percent) >>

\* float(max_value) * 1024 * 1024 for diskusage, float(max_value) for filesusage.
max_bytes(name, max_value) ==
    IF name = S_diskusage
    THEN FMul(FMul(max_value, Fin(1024, 1, 0)), Fin(1024, 1, 0))
    ELSE max_value

\* The try of lines 454-474: nothing when float(max_value) raises.
try_free_lines(name, parsed_max, metric_value, percent, labels_string) ==
    IF parsed_max.ok
    THEN free_lines(name, max_bytes(name, parsed_max.val), metric_value, percent, labels_string)
    ELSE <<>>

\* Lines 453-474: the derived lines of diskusage and filesusage.
derived_lines(name, max_value, metric_value, percent, labels_string) ==
    IF Truthy(max_value) /\ isinstance_str(max_value) /\ lower(max_value.s) /= S_unlimited
    THEN try_free_lines(name, float(max_value), metric_value, percent, labels_string)
    ELSE <<>>

\* Lines 447-477 for a record with a numeric value: the derived lines and the
\* base line, or the exception of float(percent).
stat_lines(name, item, metric_value, labels_string) ==
    IF name \in {S_diskusage, S_filesusage}
    THEN Bind(float(get_default(item, "percent", Num(0, 1))), LAMBDA percent :
             Ok(Append(derived_lines(name, get(item, "_max"), metric_value, percent,
                                     labels_string),
                       Line(S_cpanel_ \o name, labels_string, metric_value))))
    ELSE Ok(<<Line(S_cpanel_ \o name, labels_string, metric_value)>>)

\* After the normalisation of lines 420-436: skip, or go on with the value.
normalized_stat(item, v, labels_string) ==
    IF ~v.ok THEN Ok(<<>>)
    ELSE stat_lines(get(item, "name").s, item,
                    convert_units(get(item, "name").s, get(item, "units"), v.val),
                    labels_string)

\* The body of the loop over metrics_list (lines 414-477): the lines of one
\* record, or the exception that leaves the loop.
format_stat(item, labels_string) ==
    IF ~Truthy(get(item, "name")) THEN Ok(<<>>)
    ELSE normalized_stat(item, normalize_value(item), labels_string)

\* The loop over metrics_list.
RECURSIVE format_stats(_, _)
format_stats(items, labels_string) ==
    IF items = <<>> THEN Ok(<<>>)
    ELSE Bind(format_stat(Head(items), labels_string), LAMBDA first :
             Bind(format_stats(Tail(items), labels_string), LAMBDA rest :
                 Ok(first \o rest)))

\* Lines 412-481: numeric_metrics_output of a user, or the exception.
numeric_metrics(metrics_list, labels_string) ==
    Bind(format_stats(metrics_list.items, labels_string), LAMBDA out :
        Ok(Append(out, Line(S_cpanel_info, labels_string, IntValue(1)))))

-----------------------------------------------------------------------------
\* Resource usage (CPU, memory, processes, IO).

ResourceIds == {S_lvecpu, S_lveep, S_lvememphy, S_lveiops, S_lveio, S_lvenproc}

\* result.get('status') == 0 and result.get('errors')
has_errors(res) == get(res, "status") = Num(0, 1) /\ Truthy(get(res, "errors"))

\* result.get('data'), [] when it is None.
data_or_empty(res) == IF get(res, "data") = None THEN List(<<>>) ELSE get(res, "data")

\* Lines 152-163, the call having returned a document.
resource_records(resource_data) ==
    Bind(get_dict(resource_data, "result"), LAMBDA res :
        IF has_errors(res) THEN Ok(List(<<>>)) ELSE Ok(data_or_empty(res)))

\* fetch_resource_usage_metrics: the records, [] on any failure of the call.
fetch_resource_usage_metrics(result) ==
    IF run_uapi_for_user(result).ok
    THEN resource_records(run_uapi_for_user(result).val)
    ELSE Ok(List(<<>>))

\* Lines 187-193: the percent line, nothing on TypeError and ValueError, or the
\* ZeroDivisionError.
percent_line(metric_name, metric_value, maximum, labels_string) ==
    IF ~maximum.ok THEN Ok(<<>>)
    ELSE Bind(FDiv(metric_value, maximum.val), LAMBDA q :
             Ok(<<Line(metric_name \o S__percent, labels_string,
                       round2(FMul(q, Fin(100, 1, 0))))>>))

\* Lines 184-197, for a known id and a usage that is a number.
resource_lines(metric_id, metric_name, metric_value, maximum, labels_string) ==
    IF metric_id \in {S_lvecpu, S_lvememphy} /\ Truthy(maximum)
    THEN Bind(percent_line(metric_name, metric_value, float(maximum), labels_string),
              LAMBDA percent : Ok(Append(percent, Line(metric_name, labels_string, metric_value))))
    ELSE Ok(<<Line(metric_name, labels_string, metric_value)>>)

\* Lines 179-197, for a known id.
known_resource(metric_id, usage, maximum, labels_string) ==
    IF ~usage.ok THEN Ok(<<>>)
    ELSE resource_lines(metric_id, S_cpanel_ \o SubSeq(metric_id, 4, Len(metric_id)),
                        usage.val, maximum, labels_string)

\* The body of the loop of format_resource_usage_metrics (lines 171-197).
format_resource(metric, labels_string) ==
    IF isinstance_str(get(metric, "id")) /\ get(metric, "id").s \in ResourceIds
    THEN known_resource(get(metric, "id").s, float(get(metric, "usage")),
                        get(metric, "maximum"), labels_string)
    ELSE Ok(<<>>)

RECURSIVE format_resources(_, _)
format_resources(items, labels_string) ==
    IF items = <<>> THEN Ok(<<>>)
    ELSE Bind(format_resource(Head(items), labels_string), LAMBDA first :
             Bind(format_resources(Tail(items), labels_string), LAMBDA rest :
                 Ok(first \o rest)))

\* for x in records: the TypeError of a value that is no list.
records_of(v) == IF v.t = "list" THEN Ok(v.items) ELSE Raise("TypeError")

\* format_resource_usage_metrics: the lines, or the exception.
format_resource_usage_metrics(resource_metrics, labels_string) ==
    Bind(records_of(resource_metrics), LAMBDA items : format_resources(items, labels_string))

-----------------------------------------------------------------------------
\* The optional domains: MySQL, PostgreSQL, mailboxes, FTP accounts.

\* "You do not have the feature" in result['errors'][0]
feature_missing(res) == contains(get(res, "errors").items[1].s, S_feature)

\* optional_records, were the message of the error not looked at.
optional_records_unchecked(doc) ==
    Bind(get_dict(doc, "result"), LAMBDA res : Ok(data_or_empty(res)))

\* The four fetchers share one body after the call (lines 210-222): [] when
\* the first error says the feature is missing, and when there is no data.
optional_records(doc) ==
    Bind(get_dict(doc, "result"), LAMBDA res :
        IF has_errors(res) /\ feature_missing(res) THEN Ok(List(<<>>))
        ELSE Ok(data_or_empty(res)))

\* The four fetchers: [] on any failure of the call.
fetch_optional(result) ==
    IF run_uapi_for_user(result).ok
    THEN optional_records(run_uapi_for_user(result).val)
    ELSE Ok(List(<<>>))

fetch_mysql_db_metrics(result) == fetch_optional(result)
fetch_postgres_db_metrics(result) == fetch_optional(result)
fetch_email_metrics(result) == fetch_optional(result)
fetch_ftp_metrics(result) == fetch_optional(result)

\* key="value", in front of the labels of the user
structural(key, value, labels_string) ==
    key \o <<"=", "\"">> \o format_value(value) \o <<"\"", ",">> \o labels_string

\* Lines 235-244 and 282-291: the line of a database, nothing when its size
\* is no number.
db_line(metric, database_name, disk_usage_bytes, labels_string) ==
    IF disk_usage_bytes.ok
    THEN <<Line(metric, structural(S_db, database_name, labels_string), disk_usage_bytes.val)>>
    ELSE <<>>

\* The loop body of format_mysql_db_metrics and format_postgres_db_metrics.
format_db(metric, db, labels_string) ==
    IF get(db, "database") = None \/ get(db, "disk_usage") = None THEN Ok(<<>>)
    ELSE Ok(db_line(metric, get(db, "database"), float(get(db, "disk_usage")), labels_string))

RECURSIVE format_mysql_dbs(_, _)
format_mysql_dbs(items, labels_string) ==
    IF items = <<>> THEN Ok(<<>>)
    ELSE Bind(format_db(S_mysql_metric, Head(items), labels_string), LAMBDA first :
             Bind(format_mysql_dbs(Tail(items), labels_string), LAMBDA rest :
                 Ok(first \o rest)))

RECURSIVE format_postgres_dbs(_, _)
format_postgres_dbs(items, labels_string) ==
    IF items = <<>> THEN Ok(<<>>)
    ELSE Bind(format_db(S_postgres_metric, Head(items), labels_string), LAMBDA first :
             Bind(format_postgres_dbs(Tail(items), labels_string), LAMBDA rest :
                 Ok(first \o rest)))

format_mysql_db_metrics(mysql_db_metrics, labels_string) ==
    Bind(records_of(mysql_db_metrics), LAMBDA items : format_mysql_dbs(items, labels_string))
format_postgres_db_metrics(pg_metrics, labels_string) ==
    Bind(records_of(pg_metrics), LAMBDA items : format_postgres_dbs(items, labels_string))

\* The except of lines 331 and 379: a ValueError or TypeError skips the
\* record, any other exception goes up.
skip_value_errors(r) ==
    IF ~r.ok /\ r.exc \in {"ValueError", "TypeError"} THEN Raise("skip") ELSE r

\* A line with an integer value, nothing for a skipped record, or the exception.
int_line(metric, labels, n) ==
    IF n.ok THEN Ok(<<Line(metric, labels, IntValue(n.val))>>)
    ELSE IF n.exc = "skip" THEN Ok(<<>>)
    ELSE n

\* Line 330: int(float(disk_used_value))
email_bytes(disk_used_value) ==
    Bind(float(disk_used_value), LAMBDA f : int_of_float(f))

\* The loop body of format_email_metrics (lines 322-338).
format_email(email_info, labels_string) ==
    IF get(email_info, "email") = None \/ get(email_info, "_diskused") = None THEN Ok(<<>>)
    ELSE int_line(S_email_metric,
                  structural(S_email, get(email_info, "email"), labels_string),
                  skip_value_errors(email_bytes(get(email_info, "_diskused"))))

RECURSIVE format_emails(_, _)
format_emails(items, labels_string) ==
    IF items = <<>> THEN Ok(<<>>)
    ELSE Bind(format_email(Head(items), labels_string), LAMBDA first :
             Bind(format_emails(Tail(items), labels_string), LAMBDA rest :
                 Ok(first \o rest)))

format_email_metrics(email_metrics, labels_string) ==
    Bind(records_of(email_metrics), LAMBDA items : format_emails(items, labels_string))

\* round(x) of a float.
round_of_float(x) ==
    CASE x.k = "fin" -> Ok(RoundDiv(Numer(x), Denom(x)))
      [] x.k = "inf" -> Raise("OverflowError")
      [] x.k = "nan" -> Raise("ValueError")

\* ftp_bytes, were the byte count rounded to the nearest integer.
ftp_bytes_rounded(disk_used_value) ==
    Bind(float(disk_used_value), LAMBDA disk_used_mb :
        round_of_float(FMul(FMul(disk_used_mb, Fin(1024, 1, 0)), Fin(1024, 1, 0))))

\* Lines 377-378: int(float(disk_used_value) * 1024 * 1024)
ftp_bytes(disk_used_value) ==
    Bind(float(disk_used_value), LAMBDA disk_used_mb :
        int_of_float(FMul(FMul(disk_used_mb, Fin(1024, 1, 0)), Fin(1024, 1, 0))))

\* The loop body of format_ftp_metrics (lines 369-386).
format_ftp(ftp_info, labels_string) ==
    IF get(ftp_info, "login") = None \/ get(ftp_info, "_diskused") = None THEN Ok(<<>>)
    ELSE int_line(S_ftp_metric,
                  structural(S_ftp_account, get(ftp_info, "login"), labels_string),
                  skip_value_errors(ftp_bytes(get(ftp_info, "_diskused"))))

RECURSIVE format_ftps(_, _)
format_ftps(items, labels_string) ==
    IF items = <<>> THEN Ok(<<>>)
    ELSE Bind(format_ftp(Head(items), labels_string), LAMBDA first :
             Bind(format_ftps(Tail(items), labels_string), LAMBDA rest :
                 Ok(first \o rest)))

format_ftp_metrics(ftp_metrics, labels_string) ==
    Bind(records_of(ftp_metrics), LAMBDA items : format_ftps(items, labels_string))

-----------------------------------------------------------------------------
\* One scrape: the handler of GET /metrics (metrics, lines 395-517).

VARIABLES
    upstream,                   \* what the collaborators answer during this scrape
    pc,                         \* where the handler is
    calls,                      \* the commands run so far, in order
    all_users,                  \* the listing, once fetched
    idx,                        \* the position of user in all_users
    metrics_list,               \* locals of the loop body
    labels_string,
    numeric_metrics_output,
    resource_metrics_output,
    mysql_db_metrics_output,
    pg_metrics_output,
    email_metrics_output,
    ftp_metrics_output,
    global_output_lines,
    response                    \* the answer, once given

locals ==
    << metrics_list, labels_string, numeric_metrics_output, resource_metrics_output,
       mysql_db_metrics_output, pg_metrics_output, email_metrics_output, ftp_metrics_output >>
vars == << upstream, pc, calls, all_users, idx, locals, global_output_lines, response >>

user == all_users[idx]
\* What the UAPI answers for the current user.
answers == upstream.uapi[user]

\* The command lines run: whmapi1 listaccts, and uapi --user=<user> Module function.
WhmCall == <<"whmapi1", "listaccts">>
UapiCall(u, module) == <<"uapi", u, module>>

\* Response(body, mimetype='text/plain'), the body as its lines.
MetricsResponse(lines) == [status |-> 200, mimetype |-> "text/plain", body |-> lines]
\* Response("Internal server error\n", status=500, mimetype='text/plain')
ErrorResponse ==
    [status |-> 500, mimetype |-> "text/plain", body |-> <<[text |-> S_error_body]>>]
NoResponse == [status |-> 0]

\* No local of the loop body is live.
NoLocals ==
    /\ metrics_list' = None
    /\ labels_string' = <<>>
    /\ numeric_metrics_output' = <<>>
    /\ resource_metrics_output' = <<>>
    /\ mysql_db_metrics_output' = <<>>
    /\ pg_metrics_output' = <<>>
    /\ email_metrics_output' = <<>>
    /\ ftp_metrics_output' = <<>>

\* The continue of lines 408 and 510: on to the next user, nothing appended.
NextUser ==
    /\ pc' = "user"
    /\ idx' = idx + 1
    /\ NoLocals
    /\ UNCHANGED <<global_output_lines, response, all_users, upstream>>

\* Lines 400-402 and 515-517: the listing, or the 500 answer.
ListAccounts ==
    /\ pc = "start"
    /\ calls' = Append(calls, WhmCall)
    /\ LET users == fetch_all_cpanel_users(upstream.listing)
       IN IF users.ok
          THEN /\ all_users' = users.val
               /\ pc' = "user"
               /\ UNCHANGED response
          ELSE /\ response' = ErrorResponse
               /\ pc' = "done"
               /\ UNCHANGED all_users
    /\ UNCHANGED <<upstream, idx, locals, global_output_lines>>

\* FetchStats, were an empty list of statistics no reason to leave the user.
FetchStatsEmptyGoesOn ==
    /\ pc = "user"
    /\ idx <= Len(all_users)
    /\ calls' = Append(calls, UapiCall(user, "StatsBar"))
    /\ LET m == fetch_cpanel_metrics(answers.stats)
       IN IF m.ok /\ m.val.t = "list"
          THEN /\ metrics_list' = m.val
               /\ pc' = "labels"
               /\ UNCHANGED << upstream, all_users, idx, labels_string, numeric_metrics_output,
                               resource_metrics_output, mysql_db_metrics_output,
                               pg_metrics_output, email_metrics_output, ftp_metrics_output,
                               global_output_lines, response >>
          ELSE NextUser

\* Lines 406-408.
FetchStats ==
    /\ pc = "user"
    /\ idx <= Len(all_users)
    /\ calls' = Append(calls, UapiCall(user, "StatsBar"))
    /\ LET m == fetch_cpanel_metrics(answers.stats)
       IN IF m.ok /\ Truthy(m.val)
          THEN /\ metrics_list' = m.val
               /\ pc' = "labels"
               /\ UNCHANGED << upstream, all_users, idx, labels_string, numeric_metrics_output,
                               resource_metrics_output, mysql_db_metrics_output,
                               pg_metrics_output, email_metrics_output, ftp_metrics_output,
                               global_output_lines, response >>
          ELSE NextUser

\* Line 410.
ConstructLabels ==
    /\ pc = "labels"
    /\ calls' = Append(calls, UapiCall(user, "Variables"))
    /\ LET l == construct_labels(user, metrics_list, answers.ident)
       IN IF l.ok
          THEN /\ labels_string' = l.val
               /\ pc' = "numeric"
               /\ UNCHANGED << upstream, all_users, idx, metrics_list, numeric_metrics_output,
                               resource_metrics_output, mysql_db_metrics_output,
                               pg_metrics_output, email_metrics_output, ftp_metrics_output,
                               global_output_lines, response >>
          ELSE NextUser

\* NumericMetrics, were the lines appended to the output as they are made.
NumericMetricsEager ==
    /\ pc = "numeric"
    /\ UNCHANGED calls
    /\ LET out == numeric_metrics(metrics_list, labels_string)
       IN IF out.ok
          THEN /\ global_output_lines' = global_output_lines \o out.val
               /\ pc' = "resource"
               /\ UNCHANGED << upstream, all_users, idx, metrics_list, labels_string,
                               numeric_metrics_output, resource_metrics_output,
                               mysql_db_metrics_output, pg_metrics_output,
                               email_metrics_output, ftp_metrics_output, response >>
          ELSE NextUser

\* Lines 412-481.
NumericMetrics ==
    /\ pc = "numeric"
    /\ UNCHANGED calls
    /\ LET out == numeric_metrics(metrics_list, labels_string)
       IN IF out.ok
          THEN /\ numeric_metrics_output' = out.val
               /\ pc' = "resource"
               /\ UNCHANGED << upstream, all_users, idx, metrics_list, labels_string,
                               resource_metrics_output, mysql_db_metrics_output,
                               pg_metrics_output, email_metrics_output, ftp_metrics_output,
                               global_output_lines, response >>
          ELSE NextUser

\* Lines 484-485.
ResourceUsage ==
    /\ pc = "resource"
    /\ calls' = Append(calls, UapiCall(user, "ResourceUsage"))
    /\ LET out == Bind(fetch_resource_usage_metrics(answers.resource), LAMBDA resource_metrics :
                       format_resource_usage_metrics(resource_metrics, labels_string))
       IN IF out.ok
          THEN /\ resource_metrics_output' = out.val
               /\ pc' = "mysql"
               /\ UNCHANGED << upstream, all_users, idx, metrics_list, labels_string,
                               numeric_metrics_output, mysql_db_metrics_output,
                               pg_metrics_output, email_metrics_output, ftp_metrics_output,
                               global_output_lines, response >>
          ELSE NextUser

\* Lines 487-488.
MysqlDb ==
    /\ pc = "mysql"
    /\ calls' = Append(calls, UapiCall(user, "Mysql"))
    /\ LET out == Bind(fetch_mysql_db_metrics(answers.mysql), LAMBDA mysql_db_metrics :
                       format_mysql_db_metrics(mysql_db_metrics, labels_string))
       IN IF out.ok
          THEN /\ mysql_db_metrics_output' = out.val
               /\ pc' = "postgres"
               /\ UNCHANGED << upstream, all_users, idx, metrics_list, labels_string,
                               numeric_metrics_output, resource_metrics_output,
                               pg_metrics_output, email_metrics_output, ftp_metrics_output,
                               global_output_lines, response >>
          ELSE NextUser

\* Lines 490-491.
PostgresDb ==
    /\ pc = "postgres"
    /\ calls' = Append(calls, UapiCall(user, "Postgresql"))
    /\ LET out == Bind(fetch_postgres_db_metrics(answers.postgres), LAMBDA pg_metrics :
                       format_postgres_db_metrics(pg_metrics, labels_string))
       IN IF out.ok
          THEN /\ pg_metrics_output' = out.val
               /\ pc' = "email"
               /\ UNCHANGED << upstream, all_users, idx, metrics_list, labels_string,
                               numeric_metrics_output, resource_metrics_output,
                               mysql_db_metrics_output, email_metrics_output,
                               ftp_metrics_output, global_output_lines, response >>
          ELSE NextUser

\* Lines 493-494.
EmailAccounts ==
    /\ pc = "email"
    /\ calls' = Append(calls, UapiCall(user, "Email"))
    /\ LET out == Bind(fetch_email_metrics(answers.email), LAMBDA email_metrics :
                       format_email_metrics(email_metrics, labels_string))
       IN IF out.ok
          THEN /\ email_metrics_output' = out.val
               /\ pc' = "ftp"
               /\ UNCHANGED << upstream, all_users, idx, metrics_list, labels_string,
                               numeric_metrics_output, resource_metrics_output,
                               mysql_db_metrics_output, pg_metrics_output,
                               ftp_metrics_output, global_output_lines, response >>
          ELSE NextUser

\* Lines 496-497.
FtpAccounts ==
    /\ pc = "ftp"
    /\ calls' = Append(calls, UapiCall(user, "Ftp"))
    /\ LET out == Bind(fetch_ftp_metrics(answers.ftp), LAMBDA ftp_metrics :
                       format_ftp_metrics(ftp_metrics, labels_string))
       IN IF out.ok
          THEN /\ ftp_metrics_output' = out.val
               /\ pc' = "aggregate"
               /\ UNCHANGED << upstream, all_users, idx, metrics_list, labels_string,
                               numeric_metrics_output, resource_metrics_output,
                               mysql_db_metrics_output, pg_metrics_output,
                               email_metrics_output, global_output_lines, response >>
          ELSE NextUser

\* Lines 499-505: the lines of the user join the output, and on to the next.
Aggregate ==
    /\ pc = "aggregate"
    /\ global_output_lines' =
           global_output_lines \o numeric_metrics_output \o resource_metrics_output
           \o mysql_db_metrics_output \o pg_metrics_output \o email_metrics_output
           \o ftp_metrics_output
    /\ pc' = "user"
    /\ idx' = idx + 1
    /\ NoLocals
    /\ UNCHANGED <<upstream, calls, all_users, response>>

\* Lines 512-513: the 200 answer, after the last user.
Respond ==
    /\ pc = "user"
    /\ idx > Len(all_users)
    /\ response' = MetricsResponse(global_output_lines)
    /\ pc' = "done"
    /\ UNCHANGED <<upstream, calls, all_users, idx, locals, global_output_lines>>

Next ==
    \/ ListAccounts
    \/ FetchStats
    \/ ConstructLabels
    \/ NumericMetrics
    \/ ResourceUsage
    \/ MysqlDb
    \/ PostgresDb
    \/ EmailAccounts
    \/ FtpAccounts
    \/ Aggregate
    \/ Respond

\* a string-valued statistic
T_hostname == <<"h", "o", "s", "t", "n", "a", "m", "e">>
\* a host name
T_h1 == <<"h", "1">>
\* a value with double quotes in it
T_quoted == <<"m", "y", " ", "\"", "b", "o", "x", "\"">>
\* an address
T_addr == <<"1", "0", ".", "0", ".", "0", ".", "7">>
\* an address with a double quote in it
T_addr_quoted == <<"1", "0", ".", "0", ".", "0", ".", "7", "\"">>
\* numeric strings
T_5 == <<"5">>
T_1_5 == <<"1", ".", "5">>
T_padded == <<" ", "2", " ">>
T_40 == <<"4", "0">>
T_200 == <<"2", "0", "0">>
T_0 == <<"0">>
T_25 == <<"2", "5">>
T_100 == <<"1", "0", "0">>
T_0_01 == <<"0", ".", "0", "1">>
T_2048_7 == <<"2", "0", "4", "8", ".", "7">>
T_minus == <<"-", "1", ".", "5">>
\* strings that are no number
T_abc == <<"a", "b", "c">>
T_na == <<"n", "/", "a">>
\* unlimited, in other cases
T_Unlimited == <<"U", "n", "l", "i", "m", "i", "t", "e", "d">>
T_UNLIMITED == <<"U", "N", "L", "I", "M", "I", "T", "E", "D">>
\* a unit the code does not convert
T_KB == <<"K", "B">>
T_gb == <<"g", "b">>
\* error messages
T_feature_mysql ==
    <<"Y", "o", "u", " ", "d", "o", " ", "n", "o", "t", " ", "h", "a", "v", "e", " ", "t", "h",
      "e", " ", "f", "e", "a", "t", "u", "r", "e", " ", "\"", "m", "y", "s", "q", "l", "\"",
      ".">>
T_other_error == <<"Q", "u", "o", "t", "a", " ", "e", "x", "c", "e", "e", "d", "e", "d">>
\* names of records
T_db1 == <<"d", "b", "1">>
T_mail == <<"a", "@", "b">>
T_ftp1 == <<"f", "1">>
\* a domain name
T_example == <<"e", "x", "a", "m", "p", "l", "e", ".", "c", "o", "m">>
\* a statistic that is a count
T_addondomains == <<"a", "d", "d", "o", "n", "d", "o", "m", "a", "i", "n", "s">>
\* an account name with a double quote in it
T_user_quoted == <<"o", "\"", "b", "r", "i", "e", "n">>
\* a second FTP login
T_ftp2 == <<"f", "2">>
T_3 == <<"3">>

-----------------------------------------------------------------------------
\* What the collaborators can answer.

\* A non-zero exit, no output, output that is no JSON, and a JSON document.
ProcFailed == [returncode |-> 1, stdout |-> StdoutEmpty]
ProcSilent == [returncode |-> 0, stdout |-> StdoutEmpty]
ProcGarbage == [returncode |-> 0, stdout |-> StdoutGarbage]
Answer(doc) == [returncode |-> 0, stdout |-> StdoutJson(doc)]
Failures == {ProcFailed, ProcSilent, ProcGarbage}

\* {"result": {"status": 1, "errors": null, "data": data}}
UapiOk(data) ==
    Answer(Obj([result |-> Obj([status |-> Num(1, 1), errors |-> None, data |-> data])]))
\* {"result": {"status": 0, "errors": [message], "data": data}}
UapiError(message, data) ==
    Answer(Obj([result |-> Obj([status |-> Num(0, 1), errors |-> List(<<Str(message)>>),
                                data |-> data])]))

\* The name of the i-th account of the server.
UserName(i) == <<"u", DigitChars[i + 1]>>

\* whmapi1 listaccts for the given accounts.
ListingOf(accounts) == Answer(Obj([data |-> Obj([acct |-> List(accounts)])]))
Account(name) == Obj([user |-> Str(name), domain |-> Str(T_example)])
\* An account record without a user.
Nameless == Obj([domain |-> Str(T_example)])
\* Listings that are valid and name no user.
EmptyListings ==
    { ListingOf(<<>>), ListingOf(<<Nameless>>), Answer(Obj([metadata |-> EmptyObj])) }

StatHostname == Obj([name |-> Str(T_hostname), value |-> Str(T_h1)])
StatDisk ==
    Obj([name |-> Str(S_diskusage), value |-> Str(T_5), units |-> Str(S_MB),
         percent |-> Str(T_40), _max |-> Str(T_200)])
StatDiskNullPercent ==
    Obj([name |-> Str(S_diskusage), value |-> Str(T_5), units |-> Str(S_MB),
         percent |-> None, _max |-> Str(T_200)])
StatsOk == UapiOk(List(<<StatHostname, StatDisk>>))
StatsEmpty == UapiOk(List(<<>>))
StatsMissing == UapiOk(None)
StatsBadPercent == UapiOk(List(<<StatHostname, StatDiskNullPercent>>))

IdentOk == UapiOk(Obj([ip |-> Str(T_addr)]))
IdentNoAddress == UapiOk(Obj([domain |-> Str(T_example)]))
IdentNoData == UapiOk(None)

ResourceOk ==
    UapiOk(List(<<Obj([id |-> Str(S_lvecpu), usage |-> Str(T_25), maximum |-> Str(T_100)])>>))
ResourceZeroMaximum ==
    UapiOk(List(<<Obj([id |-> Str(S_lvecpu), usage |-> Str(T_25), maximum |-> Str(T_0)])>>))
ResourceError == UapiError(T_other_error, None)

Databases == List(<<Obj([database |-> Str(T_db1), disk_usage |-> Num(4096, 1)])>>)
Mailboxes == List(<<Obj([email |-> Str(T_mail), _diskused |-> Str(T_2048_7)])>>)
MailboxesInfinite == List(<<Obj([email |-> Str(T_mail), _diskused |-> Str(S_inf)])>>)
FtpAccountsData == List(<<Obj([login |-> Str(T_ftp1), _diskused |-> Str(T_0_01)])>>)

\* The answers of the seven per-user queries.
Snapshot(stats, ident, resource, mysql, postgres, email, ftp) ==
    [stats |-> stats, ident |-> ident, resource |-> resource, mysql |-> mysql,
     postgres |-> postgres, email |-> email, ftp |-> ftp]

\* An account with every feature but PostgreSQL.
Baseline ==
    Snapshot(StatsOk, IdentOk, ResourceOk, UapiOk(Databases),
             UapiError(T_feature_mysql, None), UapiOk(Mailboxes), UapiOk(FtpAccountsData))

\* The baseline with one query answering otherwise.
CoreSnapshots ==
    {Baseline}
    \cup {[Baseline EXCEPT !.stats = a] :
            a \in {ProcFailed, StatsEmpty, StatsMissing, StatsBadPercent}}
    \cup {[Baseline EXCEPT !.ident = a] :
            a \in {ProcFailed, ProcSilent, ProcGarbage, IdentNoAddress, IdentNoData}}
    \cup {[Baseline EXCEPT !.resource = a] :
            a \in {ResourceError, ResourceZeroMaximum}}
    \cup {[Baseline EXCEPT !.mysql = a] :
            a \in {ProcFailed, UapiError(T_feature_mysql, Databases),
                   UapiError(T_other_error, Databases)}}
    \cup {[Baseline EXCEPT !.postgres = a] : a \in {UapiOk(Databases)}}
    \cup {[Baseline EXCEPT !.email = a] :
            a \in {UapiError(T_feature_mysql, Mailboxes), UapiOk(MailboxesInfinite)}}
    \cup {[Baseline EXCEPT !.ftp = a] :
            a \in {UapiError(T_feature_mysql, FtpAccountsData)}}

Names(k) == {UserName(i) : i \in 1..k}

\* A server of k accounts, its listing and the answers for each account.
Servers(k) ==
    { [listing |-> ListingOf([i \in 1..k |-> Account(UserName(i))]), uapi |-> f] :
        f \in [Names(k) -> CoreSnapshots] }
\* A server whose listing fails, or names no user.
UnlistedServers ==
    { [listing |-> l, uapi |-> [u \in Names(MaxUsers) |-> Baseline]] :
        l \in Failures \cup EmptyListings }
\* A server whose listing holds a record without a user before the accounts.
PaddedServers ==
    { [listing |-> ListingOf(<<Nameless>> \o [i \in 1..MaxUsers |-> Account(UserName(i))]),
       uapi |-> [u \in Names(MaxUsers) |-> Baseline]] }

InitHandler ==
    /\ pc = "start"
    /\ calls = <<>>
    /\ all_users = <<>>
    /\ idx = 1
    /\ metrics_list = None
    /\ labels_string = <<>>
    /\ numeric_metrics_output = <<>>
    /\ resource_metrics_output = <<>>
    /\ mysql_db_metrics_output = <<>>
    /\ pg_metrics_output = <<>>
    /\ email_metrics_output = <<>>
    /\ ftp_metrics_output = <<>>
    /\ global_output_lines = <<>>
    /\ response = NoResponse

Init ==
    /\ upstream \in UNION {Servers(k) : k \in 0..MaxUsers} \cup UnlistedServers \cup PaddedServers
    /\ InitHandler

Spec == Init /\ [][Next]_vars

-----------------------------------------------------------------------------
\* A server of one account, with a wider choice of answers.

\* A field that may be absent: no field, or the field with one of the values.
Optional(key, values) == {<<>>} \cup {[k \in {key} |-> v] : v \in values}

\* diskusage and filesusage records: value, units, percent and _max vary.
UsageStats ==
    { Obj([name |-> Str(n), value |-> v] @@ u @@ p @@ m) :
        n \in {S_diskusage, S_filesusage},
        v \in {Str(T_5), Num(7, 1), Str(T_abc)},
        u \in Optional("units", {Str(S_MB)}),
        p \in Optional("percent", {Str(T_40), Num(40, 1), None, Str(T_na)}),
        m \in Optional("_max", {Str(T_200), Str(S_unlimited), Str(T_Unlimited),
                                Str(T_UNLIMITED), Str(T_abc), Num(200, 1), None}) }
    \cup
    { Obj([name |-> Str(S_diskusage), value |-> v, units |-> Str(S_GB)] @@ p @@ m) :
        v \in {Str(T_5), Str(T_1_5)},
        p \in Optional("percent", {Str(T_40), None}),
        m \in Optional("_max", {Str(T_200), Str(T_Unlimited)}) }

\* Other statistics: value, _count and units vary.
PlainStats ==
    { Obj([name |-> Str(n)] @@ v @@ c @@ u) :
        n \in DbDiskUsageNames \cup {S_bandwidthusage, T_addondomains},
        v \in Optional("value", {Str(T_5), Str(T_1_5), Str(T_padded), Num(7, 1), Num(5, 2),
                                 Str(T_abc), None}),
        c \in Optional("_count", {Str(T_3)}),
        u \in Optional("units", {Str(S_GB), Str(S_MB), Str(T_KB), Str(T_gb)}) }
    \cup { Obj([value |-> Str(T_5), units |-> Str(S_GB)]) }

StatSnapshots ==
    { [Baseline EXCEPT !.stats = UapiOk(List(<<StatHostname, item>>))] :
        item \in UsageStats \cup PlainStats }

\* The answers of an optional domain: records, the feature missing (with and
\* without data beside the error), another error, and a failed call.
OptionalAnswers(records) ==
    { UapiOk(records), UapiError(T_feature_mysql, records), ProcFailed }

\* Every combination of the coarse outcomes of the seven queries.
ProductSnapshots ==
    { Snapshot(s, i, r, m, p, e, f) :
        s \in {StatsOk, StatsEmpty},
        i \in {IdentOk, IdentNoAddress, ProcFailed},
        r \in {ResourceOk, ProcFailed},
        m \in OptionalAnswers(Databases),
        p \in OptionalAnswers(Databases),
        e \in OptionalAnswers(Mailboxes),
        f \in OptionalAnswers(FtpAccountsData) }

\* FTP accounts: login and _diskused vary; a second account follows.
FtpRecords ==
    { Obj([login |-> l] @@ d) :
        l \in {Str(T_ftp1), None},
        d \in Optional("_diskused", {Str(T_0_01), Str(T_1_5), Str(T_minus), Str(T_25),
                                     Num(3, 2), Num(2, 1), Str(T_abc), Str(S_nan), Str(S_inf),
                                     None}) }
FtpSnapshots ==
    { [Baseline EXCEPT !.ftp = UapiOk(List(<<r, Obj([login |-> Str(T_ftp2),
                                                     _diskused |-> Str(T_5)])>>))] :
        r \in FtpRecords }

\* Label values with and without a double quote.
LabelSnapshots ==
    { [Baseline EXCEPT
          !.stats = UapiOk(List(<<Obj([name |-> Str(T_hostname), value |-> Str(h)]),
                                  StatDisk>>)),
          !.ident = UapiOk(Obj(i))] :
        h \in {T_h1, T_quoted},
        i \in Optional("ip", {Str(T_addr), Str(T_addr_quoted)}) }

\* Resource usage records: id, usage and maximum vary; a second record follows.
ResourceRecords ==
    { Obj([id |-> Str(i)] @@ u @@ m) :
        i \in {S_lvecpu, S_lvememphy, S_lveep, T_abc},
        u \in Optional("usage", {Str(T_25), Num(1, 1), Str(T_abc), None}),
        m \in Optional("maximum", {Str(T_100), Str(T_3), Str(T_0), Num(0, 1), Num(100, 1),
                                   Str(T_abc), None}) }
ResourceSnapshots ==
    { [Baseline EXCEPT !.resource = UapiOk(List(<<r, Obj([id |-> Str(S_lvenproc),
                                                          usage |-> Str(T_5)])>>))] :
        r \in ResourceRecords }

OneServer(name, snapshot) ==
    [listing |-> ListingOf(<<Account(name)>>), uapi |-> [u \in {name} |-> snapshot]]

OneServers ==
    { OneServer(UserName(1), s) :
        s \in StatSnapshots \cup ProductSnapshots \cup FtpSnapshots \cup LabelSnapshots
              \cup ResourceSnapshots }
    \cup { OneServer(T_user_quoted, s) : s \in LabelSnapshots }

InitOne ==
    /\ upstream \in OneServers
    /\ InitHandler

SpecOne == InitOne /\ [][Next]_vars

-----------------------------------------------------------------------------
\* The body of the loop over the users (lines 405-510) as a function of the
\* answers for one user: the lines the user adds to the output, "continue" when
\* the statistics are empty, or the exception caught at line 507.
lines_or_exception(user_name, a) ==
    Bind(fetch_cpanel_metrics(a.stats), LAMBDA m :
      IF ~Truthy(m) THEN Raise("continue")
      ELSE
        Bind(construct_labels(user_name, m, a.ident), LAMBDA l :
        Bind(numeric_metrics(m, l), LAMBDA numeric :
        Bind(Bind(fetch_resource_usage_metrics(a.resource),
                  LAMBDA d : format_resource_usage_metrics(d, l)), LAMBDA resource :
        Bind(Bind(fetch_mysql_db_metrics(a.mysql),
                  LAMBDA d : format_mysql_db_metrics(d, l)), LAMBDA mysql :
        Bind(Bind(fetch_postgres_db_metrics(a.postgres),
                  LAMBDA d : format_postgres_db_metrics(d, l)), LAMBDA postgres :
        Bind(Bind(fetch_email_metrics(a.email),
                  LAMBDA d : format_email_metrics(d, l)), LAMBDA email :
        Bind(Bind(fetch_ftp_metrics(a.ftp),
                  LAMBDA d : format_ftp_metrics(d, l)), LAMBDA ftp :
            Ok(numeric \o resource \o mysql \o postgres \o email \o ftp)))))))))

\* The lines a user adds to the output: none when its processing is left early.
lines_of_user(user_name, a) ==
    IF lines_or_exception(user_name, a).ok THEN lines_or_exception(user_name, a).val ELSE <<>>

\* The processing of the user raises, at whatever stage.
raises(user_name, a) ==
    ~lines_or_exception(user_name, a).ok /\ lines_or_exception(user_name, a).exc /= "continue"

\* The output of a scrape of the given users, in their order.
RECURSIVE lines_of_users(_, _)
lines_of_users(users, uapi) ==
    IF users = <<>> THEN <<>>
    ELSE lines_of_user(Head(users), uapi[Head(users)]) \o lines_of_users(Tail(users), uapi)

-----------------------------------------------------------------------------
\* Properties of the scrape.

Done == pc = "done"
\* A line of the body is a metric line, not the text of an error.
IsMetricLine(l) == "name" \in DOMAIN l
\* The listing collaborator exits non-zero, prints nothing, or prints no JSON.
ListingFails ==
    \/ upstream.listing.returncode /= 0
    \/ upstream.listing.stdout.t \in {"empty", "text"}
\* The users of the listing whose processing does not raise.
Survivors == SelectSeq(all_users, LAMBDA u : ~raises(u, upstream.uapi[u]))

\* user="<name>", as it stands in the labels of every line of the user.
UserLabel(u) == S_user \o <<"=", "\"">> \o u \o <<"\"">>

\* C1: tenant isolation.  Once a scrape of a listed server has answered, the
\* answer is 200, and its body is the body of a scrape of the listing without
\* the tenants whose processing raises: such a tenant adds no line, and the
\* others add the lines they add on their own, in the order of the listing.
C1_TenantIsolation ==
    (Done /\ ~ListingFails) =>
        /\ response.status = 200
        /\ response.body = lines_of_users(Survivors, upstream.uapi)
        /\ \A i \in DOMAIN all_users :
              raises(all_users[i], upstream.uapi[all_users[i]]) =>
                  \A n \in DOMAIN response.body :
                      ~contains(response.body[n].labels, UserLabel(all_users[i]))

\* A scrape has answered 200 with the lines of a tenant listed after a tenant
\* whose processing raised.
C1_Witness ==
    /\ Done
    /\ response.status = 200
    /\ \E j, k \in DOMAIN all_users :
          /\ j < k
          /\ raises(all_users[j], upstream.uapi[all_users[j]])
          /\ lines_of_user(all_users[k], upstream.uapi[all_users[k]]) /= <<>>
          /\ response.body = lines_of_user(all_users[k], upstream.uapi[all_users[k]])

\* The lines of the body that carry the labels of the user.
LinesOf(u) == SelectSeq(response.body, LAMBDA l : contains(l.labels, UserLabel(u)))
\* The statistics of the user are fetched and are not empty.
ValidStats(a) ==
    fetch_cpanel_metrics(a.stats).ok /\ Truthy(fetch_cpanel_metrics(a.stats).val)
\* The statistics of the user are fetched and are missing or empty.
EmptyStats(a) ==
    fetch_cpanel_metrics(a.stats).ok /\ ~Truthy(fetch_cpanel_metrics(a.stats).val)
\* The cpanel_info lines of the user, with the value 1.
InfoLines(u) ==
    SelectSeq(LinesOf(u), LAMBDA l : l.name = S_cpanel_info /\ l.value = IntValue(1))

\* C2: one presence marker per tenant.  Once a scrape has answered 200, the
\* body holds exactly one cpanel_info line of value 1 for every listed tenant
\* whose statistics are valid and not empty, whatever the identity query and
\* the other domains answer, and none for the other tenants.
C2_OneInfoLinePerTenant ==
    (Done /\ response.status = 200) =>
        \A i \in DOMAIN all_users :
            Len(InfoLines(all_users[i])) =
                IF ValidStats(upstream.uapi[all_users[i]]) THEN 1 ELSE 0

\* The identity query of the user fails: a non-zero exit, no output, output
\* that is no JSON, or a result without an address.
IdentityFails(a) ==
    \/ ~run_uapi_for_user(a.ident).ok
    \/ ~isinstance_dict(get(get(run_uapi_for_user(a.ident).val, "result"), "data"))
    \/ "ip" \notin DOMAIN get(get(run_uapi_for_user(a.ident).val, "result"), "data").f

\* ip="unknown"
UnknownAddress == S_ip \o <<"=", "\"">> \o S_unknown \o <<"\"">>

\* C3: identity is best-effort.  Once a scrape has answered 200, every
\* listed tenant with valid statistics whose identity query failed has its
\* lines in the body, and each of them carries ip="unknown".
C3_IdentityBestEffort ==
    (Done /\ response.status = 200) =>
        \A i \in DOMAIN all_users :
            (ValidStats(upstream.uapi[all_users[i]])
                 /\ IdentityFails(upstream.uapi[all_users[i]])) =>
                /\ LinesOf(all_users[i]) /= <<>>
                /\ \A n \in DOMAIN LinesOf(all_users[i]) :
                      contains(LinesOf(all_users[i])[n].labels, UnknownAddress)

\* C4: the listing decides the status.  A failed listing is answered 500
\* with the generic body, no metric line, and no per-tenant command is ever
\* run; a valid listing without users is answered 200 with no line.
C4_ListingDecidesStatus ==
    /\ ListingFails => \A i \in DOMAIN calls : calls[i] = WhmCall
    /\ (Done /\ ListingFails) =>
          /\ response = ErrorResponse
          /\ \A i \in DOMAIN response.body : ~IsMetricLine(response.body[i])
    /\ (Done /\ upstream.listing \in EmptyListings) =>
          /\ response.status = 200
          /\ response.body = <<>>
          /\ calls = <<WhmCall>>

\* A scrape of a server with accounts whose listing failed has answered.
C4_Witness ==
    /\ Done
    /\ ListingFails
    /\ response.status = 500
    /\ DOMAIN upstream.uapi /= {}


\* The modules of the five domains queried after the statistics and the identity.
DomainModules == {"ResourceUsage", "Mysql", "Postgresql", "Email", "Ftp"}
\* The commands run for the user so far.
CallsFor(u) == SelectSeq(calls, LAMBDA c : Len(c) = 3 /\ c[2] = u)

\* C5 as stated: once a scrape has answered 200, the five domains have been
\* queried for every listed tenant whose statistics are missing or empty.
C5_OtherDomainsStillFetched ==
    (Done /\ response.status = 200) =>
        \A i \in DOMAIN all_users :
            EmptyStats(upstream.uapi[all_users[i]]) =>
                \A m \in DomainModules :
                    \E c \in DOMAIN calls : calls[c] = UapiCall(all_users[i], m)

\* C5, amended: a tenant whose statistics are missing or empty is left
\* altogether.  No command but the statistics query is ever run for it, and
\* once the scrape has answered, the answer is 200 and holds no line of it.
C5_EmptyStatsSkipsTenant ==
    \A i \in DOMAIN all_users :
        EmptyStats(upstream.uapi[all_users[i]]) =>
            /\ \A c \in DOMAIN CallsFor(all_users[i]) :
                  CallsFor(all_users[i])[c] = UapiCall(all_users[i], "StatsBar")
            /\ Done => (response.status = 200 /\ LinesOf(all_users[i]) = <<>>)

\* A scrape has answered with the lines of a tenant listed after a tenant
\* whose statistics were empty, and only the statistics were asked for the latter.
C5_Witness ==
    /\ Done
    /\ \E j, k \in DOMAIN all_users :
          /\ j < k
          /\ EmptyStats(upstream.uapi[all_users[j]])
          /\ CallsFor(all_users[j]) = <<UapiCall(all_users[j], "StatsBar")>>
          /\ Len(CallsFor(all_users[k])) = 7
          /\ LinesOf(all_users[k]) /= <<>>

\* The optional domains, by the field of the answers, and their metric names.
OptionalDomains == {"mysql", "postgres", "email", "ftp"}
MetricOf(domain) ==
    CASE domain = "mysql" -> S_mysql_metric
      [] domain = "postgres" -> S_postgres_metric
      [] domain = "email" -> S_email_metric
      [] domain = "ftp" -> S_ftp_metric
\* The answer is a document of status 0 whose first error says the feature is missing.
FeatureUnavailable(result) ==
    /\ result.returncode = 0
    /\ result.stdout.t = "json"
    /\ get(get(result.stdout.doc, "result"), "status") = Num(0, 1)
    /\ get(get(result.stdout.doc, "result"), "errors").t = "list"
    /\ get(get(result.stdout.doc, "result"), "errors").items /= <<>>
    /\ contains(get(get(result.stdout.doc, "result"), "errors").items[1].s, S_feature)
\* The records that stand beside the error in the answer.
DataOf(result) == get(get(result.stdout.doc, "result"), "data")
\* The answers, the domain of the user answering with no record and no error.
WithoutRecords(u, domain) == [upstream.uapi EXCEPT ![u][domain] = UapiOk(List(<<>>))]

\* C6: a missing feature is no data.  Once a scrape has answered, for every
\* tenant and every optional domain that answered that the feature is missing:
\* the fetch of the domain gives the empty list and raises nothing, the body
\* holds no line of the metric of the domain, and it is the body the scrape
\* gives when the domain answers with no record: the lines of the other
\* domains are all there.
C6_FeatureUnavailableIsEmpty ==
    Done =>
        \A i \in DOMAIN all_users : \A domain \in OptionalDomains :
            FeatureUnavailable(upstream.uapi[all_users[i]][domain]) =>
                /\ fetch_optional(upstream.uapi[all_users[i]][domain]) = Ok(List(<<>>))
                /\ response.status = 200
                /\ \A n \in DOMAIN response.body : response.body[n].name /= MetricOf(domain)
                /\ response.body = lines_of_users(all_users, WithoutRecords(all_users[i], domain))

\* A scrape has answered with the mailbox lines of a tenant whose MySQL
\* answer says the feature is missing and yet holds database records.
C6_Witness ==
    /\ Done
    /\ \E i \in DOMAIN all_users :
          /\ FeatureUnavailable(upstream.uapi[all_users[i]].mysql)
          /\ DataOf(upstream.uapi[all_users[i]].mysql) = Databases
          /\ \E n \in DOMAIN response.body : response.body[n].name = S_email_metric
          /\ \E n \in DOMAIN response.body : response.body[n].name = S_cpanel_info

\* The statistics of the user, as fetched.
StatsOf(a) == fetch_cpanel_metrics(a.stats).val.items
\* The records of diskusage and filesusage whose value is a number.
UsageRecords(items) ==
    SelectSeq(items, LAMBDA item :
        /\ get(item, "name") \in {Str(S_diskusage), Str(S_filesusage)}
        /\ normalize_value(item).ok)
\* The lines hold the base line of the record: cpanel_<name>.
HasBaseLine(lines, item) ==
    \E n \in DOMAIN lines : lines[n].name = S_cpanel_ \o get(item, "name").s

\* C7: the base line of diskusage and filesusage.  The numeric stage of a
\* tenant never leaves the tenant: whatever percent and _max hold, it ends with
\* the base line cpanel_<name> of every diskusage and filesusage record whose
\* value is a number among the lines of the tenant, and the tenant goes on to
\* the next stage.
C7_BaseLineAlwaysEmitted ==
    [][pc = "numeric" =>
          /\ pc' = "resource"
          /\ \A k \in DOMAIN UsageRecords(metrics_list.items) :
                HasBaseLine(numeric_metrics_output', UsageRecords(metrics_list.items)[k])]_vars

\* A value with each double quote escaped.
Escaped(value) == replace(value, "\"", <<"\\", "\"">>)
\* The address of the user: the ip of the identity answer, "unknown" without one.
AddressOf(a) ==
    IF IdentityFails(a) THEN S_unknown
    ELSE format_value(get(get(get(run_uapi_for_user(a.ident).val, "result"), "data"), "ip"))
\* The labels of the user, every value escaped.
EscapedLabels(u, a) ==
    join_labels(dict_set(dict_set(fold_labels(StatsOf(a), <<>>), S_user, Escaped(u)),
                         S_ip, Escaped(AddressOf(a))))
EndsWith(s, suffix) ==
    Len(suffix) <= Len(s) /\ SubSeq(s, Len(s) - Len(suffix) + 1, Len(s)) = suffix

\* The position of the = that ends the key starting at i, 0 when there is none.
RECURSIVE KeyEnd(_, _)
KeyEnd(s, i) ==
    IF i > Len(s) THEN 0
    ELSE IF s[i] = "=" THEN i
    ELSE IF s[i] \in {"\"", ","} THEN 0
    ELSE KeyEnd(s, i + 1)
\* The position of the double quote that ends the value starting at i: the
\* first one that no backslash escapes, 0 when there is none.
RECURSIVE ValueEnd(_, _)
ValueEnd(s, i) ==
    IF i > Len(s) THEN 0
    ELSE IF s[i] = "\\" THEN ValueEnd(s, i + 2)
    ELSE IF s[i] = "\"" THEN i
    ELSE ValueEnd(s, i + 1)
\* From i on, s is key="value" pairs with commas between: no value holds a
\* double quote that is not escaped.
RECURSIVE PairsFrom(_, _)
PairsFrom(s, i) ==
    /\ KeyEnd(s, i) > i
    /\ KeyEnd(s, i) < Len(s)
    /\ s[KeyEnd(s, i) + 1] = "\""
    /\ ValueEnd(s, KeyEnd(s, i) + 2) > 0
    /\ \/ ValueEnd(s, KeyEnd(s, i) + 2) = Len(s)
       \/ /\ ValueEnd(s, KeyEnd(s, i) + 2) < Len(s)
          /\ s[ValueEnd(s, KeyEnd(s, i) + 2) + 1] = ","
          /\ PairsFrom(s, ValueEnd(s, KeyEnd(s, i) + 2) + 2)

\* C8: label values are escaped.  Once a scrape has answered 200, the labels
\* of every line of the body end with the labels of a listed tenant, each
\* folded statistic, the user and the ip with every double quote escaped, and
\* no label value of the line holds a double quote that is not escaped.
C8_LabelValuesEscaped ==
    (Done /\ response.status = 200) =>
        \A n \in DOMAIN response.body :
            /\ PairsFrom(response.body[n].labels, 1)
            /\ \E i \in DOMAIN all_users :
                  EndsWith(response.body[n].labels,
                           EscapedLabels(all_users[i], upstream.uapi[all_users[i]]))

\* The records with a name whose value (_count before value) is a number.
NumericRecords(items) ==
    SelectSeq(items, LAMBDA item : Truthy(get(item, "name")) /\ normalize_value(item).ok)
\* The value the base line of a record is to carry: v * 1024^3 for GB and
\* v * 1024^2 for MB, v for other units and for the database disk usages.
Converted(item) ==
    IF get(item, "name").s \in {S_mysqldiskusage, S_cachedmysqldiskusage,
                                S_postgresdiskusage, S_cachedpostgresdiskusage}
    THEN normalize_value(item).val
    ELSE IF get(item, "units") = Str(S_GB)
    THEN FMul(normalize_value(item).val, Fin(1024 * 1024 * 1024, 1, 0))
    ELSE IF get(item, "units") = Str(S_MB)
    THEN FMul(normalize_value(item).val, Fin(1024 * 1024, 1, 0))
    ELSE normalize_value(item).val
\* The lines hold the base line of the record, and every line of its name
\* carries the converted value.
CarriesConverted(lines, item) ==
    /\ \E n \in DOMAIN lines : lines[n].name = S_cpanel_ \o get(item, "name").s
    /\ \A n \in DOMAIN lines :
          lines[n].name = S_cpanel_ \o get(item, "name").s =>
              lines[n].value = Converted(item)

\* C9: unit conversion.  When the numeric stage of a tenant is over, and
\* when the scrape has answered with the lines of the tenant, the base line
\* cpanel_<name> of every record whose value is a number v carries
\* v * 1024^3 for the units GB, v * 1024^2 for the units MB and v otherwise,
\* but v whatever the units for the four database disk usages.
C9_UnitConversion ==
    /\ pc = "resource" =>
          \A k \in DOMAIN NumericRecords(metrics_list.items) :
              CarriesConverted(numeric_metrics_output, NumericRecords(metrics_list.items)[k])
    /\ (Done /\ response.status = 200) =>
          \A i \in DOMAIN all_users :
              InfoLines(all_users[i]) /= <<>> =>
                  \A k \in DOMAIN NumericRecords(StatsOf(upstream.uapi[all_users[i]])) :
                      CarriesConverted(LinesOf(all_users[i]),
                                       NumericRecords(StatsOf(upstream.uapi[all_users[i]]))[k])

\* A scrape has answered with the base line of a mysqldiskusage record in GB,
\* carrying the value as it came.
C9_Witness ==
    /\ Done
    /\ \E i \in DOMAIN all_users :
          \E k \in DOMAIN NumericRecords(StatsOf(upstream.uapi[all_users[i]])) :
              LET item == NumericRecords(StatsOf(upstream.uapi[all_users[i]]))[k]
              IN /\ get(item, "name") = Str(S_mysqldiskusage)
                 /\ get(item, "units") = Str(S_GB)
                 /\ \E n \in DOMAIN response.body :
                       /\ response.body[n].name = S_cpanel_ \o S_mysqldiskusage
                       /\ response.body[n].value = normalize_value(item).val

\* The FTP records of the user, as fetched.
FtpOf(a) == fetch_ftp_metrics(a.ftp).val.items
\* The FTP records with a login whose _diskused is a finite number.
FiniteFtpRecords(items) ==
    SelectSeq(items, LAMBDA r :
        /\ get(r, "login") /= None
        /\ get(r, "_diskused") /= None
        /\ float(get(r, "_diskused")).ok
        /\ IsFinite(float(get(r, "_diskused")).val))
\* The megabytes of a record as bytes: mb * 1024 * 1024.
Bytes(r) == FMul(float(get(r, "_diskused")).val, Fin(1024 * 1024, 1, 0))
\* The values of the FTP lines of the user in the body, in order.
FtpValues(u) ==
    LET lines == SelectSeq(LinesOf(u), LAMBDA l : l.name = S_ftp_metric)
    IN [n \in DOMAIN lines |-> lines[n].value]

\* C10 as stated: once a scrape has answered with the lines of a tenant, the
\* FTP lines of the tenant carry, record by record, the bytes of every record
\* with a login and a finite number of megabytes, rounded to the nearest integer.
C10_FtpBytesRounded ==
    Done =>
        \A i \in DOMAIN all_users :
            InfoLines(all_users[i]) /= <<>> =>
                FtpValues(all_users[i]) =
                    [k \in DOMAIN FiniteFtpRecords(FtpOf(upstream.uapi[all_users[i]])) |->
                        IntValue(RoundDiv(
                            Numer(Bytes(FiniteFtpRecords(FtpOf(upstream.uapi[all_users[i]]))[k])),
                            Denom(Bytes(FiniteFtpRecords(FtpOf(upstream.uapi[all_users[i]]))[k]))))]

\* C10, amended: once a scrape has answered with the lines of a tenant, the
\* FTP lines of the tenant carry, record by record, the bytes of every record
\* with a login and a finite number of megabytes, truncated toward zero.
C10_FtpBytesTruncated ==
    Done =>
        \A i \in DOMAIN all_users :
            InfoLines(all_users[i]) /= <<>> =>
                FtpValues(all_users[i]) =
                    [k \in DOMAIN FiniteFtpRecords(FtpOf(upstream.uapi[all_users[i]])) |->
                        IntValue(TruncDiv(
                            Numer(Bytes(FiniteFtpRecords(FtpOf(upstream.uapi[all_users[i]]))[k])),
                            Denom(Bytes(FiniteFtpRecords(FtpOf(upstream.uapi[all_users[i]]))[k]))))]

\* A scrape has answered with the FTP line of 0.01 MB: 10485 bytes, of 10485.76.
C10_Witness ==
    /\ Done
    /\ \E i \in DOMAIN all_users :
          /\ Len(FtpOf(upstream.uapi[all_users[i]])) = 2
          /\ FtpOf(upstream.uapi[all_users[i]])[1] =
                 Obj([login |-> Str(T_ftp1), _diskused |-> Str(T_0_01)])
          /\ FtpValues(all_users[i]) = <<IntValue(10485), IntValue(5 * 1024 * 1024)>>

\* The resource records with a known id whose usage is a number.
KnownResources(items) ==
    SelectSeq(items, LAMBDA metric :
        /\ get(metric, "id") \in {Str(S_lvecpu), Str(S_lveep), Str(S_lvememphy),
                                  Str(S_lveiops), Str(S_lveio), Str(S_lvenproc)}
        /\ float(get(metric, "usage")).ok)
\* cpanel_<suffix>: the id without its first three characters.
ResourceName(metric) == S_cpanel_ \o SubSeq(get(metric, "id").s, 4, Len(get(metric, "id").s))
\* The lines hold the base line of the record, carrying its usage.
HasResourceLine(lines, metric) ==
    \E n \in DOMAIN lines :
        /\ lines[n].name = ResourceName(metric)
        /\ lines[n].value = float(get(metric, "usage")).val
\* The record is CPU or physical memory, and its maximum is a number that is not zero.
HasPercent(metric) ==
    /\ get(metric, "id") \in {Str(S_lvecpu), Str(S_lvememphy)}
    /\ Truthy(get(metric, "maximum"))
    /\ float(get(metric, "maximum")).ok
    /\ IsFinite(float(get(metric, "maximum")).val)
    /\ float(get(metric, "maximum")).val.n /= 0
\* usage / maximum * 100 in hundredths, rounded to the nearest integer.
PercentHundredths(metric) ==
    RoundDiv(10000 * Numer(float(get(metric, "usage")).val)
                   * Denom(float(get(metric, "maximum")).val),
             Denom(float(get(metric, "usage")).val)
                   * Numer(float(get(metric, "maximum")).val))
\* The resource records of the user, as fetched.
ResourcesOf(a) == fetch_resource_usage_metrics(a.resource).val.items

\* C11: resource usage.  The resource stage of a tenant never leaves the
\* tenant: whatever the maximum of a record holds, the stage ends with the base
\* line cpanel_<suffix> of every record with a known id and a usage that is a
\* number, with the line cpanel_<suffix>_percent = round(usage / maximum * 100, 2)
\* for CPU and physical memory when the maximum gives one, and the tenant goes
\* on to the next stage.
C11_ResourceBaseLineAlwaysEmitted ==
    [][pc = "resource" =>
          /\ pc' = "mysql"
          /\ \A k \in DOMAIN KnownResources(ResourcesOf(answers)) :
                LET metric == KnownResources(ResourcesOf(answers))[k]
                IN /\ HasResourceLine(resource_metrics_output', metric)
                   /\ HasPercent(metric) =>
                         \E n \in DOMAIN resource_metrics_output' :
                             /\ resource_metrics_output'[n].name =
                                    ResourceName(metric) \o S__percent
                             /\ resource_metrics_output'[n].value =
                                    Fin(PercentHundredths(metric), 100, 0)]_vars
=============================================================================
